---- MODULE Spec2Model ----
(***************************************************************************)
(* Spatial layout engine of reactionspace: the projection function         *)
(* UMAPService.compute_2d_positions, the insert path of the upload         *)
(* handlers under upload_lock, recompute_positions and delete_item over    *)
(* the in-memory store (items_db, embeddings_db).                          *)
(*                                                                         *)
(* Numbers.  A float is a pair <<kind, v>>: <<"fin", v>> is a finite value *)
(* v (an integer in the unit of the quantity), <<"nan", 0>> is NaN and     *)
(* <<"inf", 0>> an infinity.  Canvas coordinates are in whole canvas       *)
(* units; the reducer's raw output is in units of 1e-6, the resolution of  *)
(* the 1e-6 threshold of umap_service.py:48.                               *)
(***************************************************************************)
EXTENDS Integers, Naturals, Sequences, FiniteSets, TLC

\* ------------------------------------------------------------------ bounds
MaxN == 3

\* --------------------------------------------------------------- constants
UMAP_N_NEIGHBORS == 15
PairDistance == 500
JitterMagnitude == 200
CanvasScale == 1000
FallbackRadius == 600
MicroPerUnit == 1000000
TrigScale == 1000
TwoPiMilli == 6283
\* settings.STORAGE_LIMIT and settings.STORAGE_LIMIT_PRO, in MB
STORAGE_LIMIT == 50
STORAGE_LIMIT_PRO == 5120

\* ------------------------------------------------------------------ floats
Fin(v) == <<"fin", v>>
NaN == <<"nan", 0>>
Inf == <<"inf", 0>>
IsFinite(c) == c[1] = "fin"
Pos(x, y) == <<Fin(x), Fin(y)>>
PosFinite(p) == IsFinite(p[1]) /\ IsFinite(p[2])

Abs(n) == IF n < 0 THEN -n ELSE n
Min(a, b) == IF a < b THEN a ELSE b
Max(a, b) == IF a > b THEN a ELSE b

RECURSIVE SumSeq(_)
SumSeq(s) == IF s = <<>> THEN 0 ELSE Head(s) + SumSeq(Tail(s))

\* floor of the square root, by bisection on [lo, hi]
RECURSIVE ISqrtIn(_, _, _)
ISqrtIn(n, lo, hi) ==
  IF lo >= hi THEN lo
  ELSE LET mid == (lo + hi + 1) \div 2
       IN IF mid * mid <= n THEN ISqrtIn(n, mid, hi) ELSE ISqrtIn(n, lo, mid - 1)
ISqrt(n) == ISqrtIn(n, 0, 46340)

\* --------------------------------------------------------------- np.cos/sin
\* cos of an angle given in 1/TrigScale radians, result scaled by TrigScale.
CosQuarter(t) ==
  LET p2 == (t * t) \div TrigScale
      p4 == (p2 * p2) \div TrigScale
      p6 == (p4 * p2) \div TrigScale
      p8 == (p6 * p2) \div TrigScale
  IN TrigScale - p2 \div 2 + p4 \div 24 - p6 \div 720 + p8 \div 40320
np_cos(a) ==
  LET pi == TwoPiMilli \div 2
      r == Abs(a) % TwoPiMilli
      h == IF r > pi THEN TwoPiMilli - r ELSE r
  IN IF h > pi \div 2 THEN -CosQuarter(pi - h) ELSE CosQuarter(h)
np_sin(a) == np_cos(a - TwoPiMilli \div 4)

\* ---------------------------------------------------------------- vectors
\* A stored embedding: a flat list of numbers (is_list) or some other value
\* (a string, None); elems are its components.
Vec(elems) == [is_list |-> TRUE, elems |-> elems]
NotAList == [is_list |-> FALSE, elems |-> <<>>]
VecA == Vec(<<1, 0>>)
VecB == Vec(<<0, 1>>)
VecC == Vec(<<1, 0, 0>>)
Vectors == {VecA, VecB, VecC}
StoredValues == Vectors \cup {NotAList}

\* numpy shape of one element of the list given to np.array
Shape(v) == IF v.is_list THEN Len(v.elems) ELSE -1
Homogeneous(embeddings) ==
  /\ \A i \in 1..Len(embeddings) : embeddings[i].is_list
  /\ \A i, j \in 1..Len(embeddings) : Shape(embeddings[i]) = Shape(embeddings[j])
Ragged(embeddings) ==
  \E i, j \in 1..Len(embeddings) : Shape(embeddings[i]) # Shape(embeddings[j])

\* ------------------------------------------------- the reducer's environment
\* What UMAP.fit_transform does is outside the repository: it raises, or it
\* returns one raw 2D row per input row.  np.random.randn is the process-wide
\* unseeded generator.  np.array on a ragged list raises or builds an object
\* array, depending on the numpy release.
RawPoints == {<<Fin(0), Fin(0)>>, <<Fin(1), Fin(0)>>, <<Fin(10), Fin(0)>>,
              <<Fin(0), Fin(10)>>, <<Fin(10), Fin(10)>>, <<NaN, Fin(0)>>,
              <<Inf, Fin(10)>>}
RandnDraws == {<<-1, 1>>, <<1, 0>>}
SeqsOfLen(S, n) == [1..n -> S]
ReducerOutcomes(n) ==
  {[raises |-> TRUE, raw |-> <<>>]}
    \cup {[raises |-> FALSE, raw |-> r] : r \in SeqsOfLen(RawPoints, n)}
NoRandn(n) == [i \in 1..n |-> <<0, 0>>]

\* ------------------------------------------------- compute_2d_positions
Column(raw, axis) == [i \in 1..Len(raw) |-> raw[i][axis]]
ColumnFinite(raw, axis) == \A i \in 1..Len(raw) : IsFinite(raw[i][axis])
ColumnSum(raw, axis) == SumSeq([i \in 1..Len(raw) |-> raw[i][axis][2]])
\* N * x_i - sum(x): N times the deviation of row i from the mean
Deviation(raw, axis, i) == Len(raw) * raw[i][axis][2] - ColumnSum(raw, axis)
\* sum of squared N-fold deviations: std^2 = SumSq / N^3
SumSq(raw, axis) ==
  SumSeq([i \in 1..Len(raw) |-> Deviation(raw, axis, i) * Deviation(raw, axis, i)])
\* std < 1e-6 (one raw unit); a NaN std compares False
StdBelowEps(raw, axis) ==
  /\ ColumnFinite(raw, axis)
  /\ SumSq(raw, axis) < Len(raw) * Len(raw) * Len(raw)
\* (variant: both axes have to be below the threshold)
AllStdBelowEps(raw) == StdBelowEps(raw, 1) /\ StdBelowEps(raw, 2)
AnyStdBelowEps(raw) == StdBelowEps(raw, 1) \/ StdBelowEps(raw, 2)

\* ((x - mean) / (std + 1e-8)) * 1000, in whole canvas units
NormalisedValue(raw, axis, i) ==
  IF ~ColumnFinite(raw, axis) THEN NaN
  ELSE LET n == Len(raw)
           std100 == ISqrt(SumSq(raw, axis) * n * 10000)
       IN Fin((CanvasScale * Deviation(raw, axis, i) * n * 100) \div (std100 + n * n))
Normalised(raw) ==
  [i \in 1..Len(raw) |-> <<NormalisedValue(raw, 1, i), NormalisedValue(raw, 2, i)>>]

\* x + randn * 200, in whole canvas units
JitteredValue(c, z) ==
  IF IsFinite(c) THEN Fin((c[2] + z * JitterMagnitude * MicroPerUnit) \div MicroPerUnit)
  ELSE c
Jittered(raw, randn) ==
  [i \in 1..Len(raw) |->
     <<JitteredValue(raw[i][1], randn[i][1]), JitteredValue(raw[i][2], randn[i][2])>>]

\* angles = np.linspace(0, 2*pi, n, endpoint=False); radius * cos, radius * sin
CircleLayout(n) ==
  [k \in 1..n |->
     LET a == (TwoPiMilli * (k - 1)) \div n
     IN Pos((FallbackRadius * np_cos(a)) \div TrigScale,
            (FallbackRadius * np_sin(a)) \div TrigScale)]

\* The environments of one call: fit_transform is given a numeric matrix or
\* raises, randn is drawn only where line 50 draws it, and the numpy release
\* matters only for a ragged list.
RaisingOutcome == [raises |-> TRUE, raw |-> <<>>]
EnvsOver(embeddings, outcomes, randns) ==
  LET n == Len(embeddings)
      possible == IF Homogeneous(embeddings) THEN outcomes ELSE {RaisingOutcome}
      draws(o) == IF n >= 3 /\ ~o.raises /\ AnyStdBelowEps(o.raw)
                  THEN randns ELSE {NoRandn(n)}
      numpys == IF Ragged(embeddings) THEN BOOLEAN ELSE {FALSE}
  IN UNION {{[outcome |-> o, randn |-> z, array_raises |-> r] :
               z \in draws(o), r \in numpys} : o \in possible}
Envs(embeddings) ==
  EnvsOver(embeddings, ReducerOutcomes(Len(embeddings)),
           SeqsOfLen(RandnDraws, Len(embeddings)))

\* (variant: the number of samples is taken where the code has it less one)
n_neighbors_of_samples(n) == Min(Max(2, n), UMAP_N_NEIGHBORS)
n_neighbors(n) == Min(Max(2, n - 1), UMAP_N_NEIGHBORS)

\* (variant: the positions come back in the opposite order)
ReturnedReversed(positions, branch, calls, nn) ==
  [raised |-> FALSE,
   positions |-> [i \in 1..Len(positions) |-> positions[Len(positions) + 1 - i]],
   branch |-> branch, fit_calls |-> calls, n_neighbors |-> nn]
Returned(positions, branch, calls, nn) ==
  [raised |-> FALSE, positions |-> positions, branch |-> branch,
   fit_calls |-> calls, n_neighbors |-> nn]
Raised(branch) ==
  [raised |-> TRUE, positions |-> <<>>, branch |-> branch,
   fit_calls |-> 0, n_neighbors |-> 0]

\* (variant: two identical vectors are both put at the origin)
SmallLayoutByContents(embeddings) ==
  IF Len(embeddings) = 0 THEN <<>>
  ELSE IF Len(embeddings) = 1 THEN <<Pos(0, 0)>>
  ELSE IF embeddings[1] = embeddings[2] THEN <<Pos(0, 0), Pos(0, 0)>>
  ELSE <<Pos(-PairDistance, 0), Pos(PairDistance, 0)>>
\* (variant: the two points of the pair the other way round)
SmallLayoutPairSwapped(embeddings) ==
  IF Len(embeddings) = 0 THEN <<>>
  ELSE IF Len(embeddings) = 1 THEN <<Pos(0, 0)>>
  ELSE <<Pos(PairDistance, 0), Pos(-PairDistance, 0)>>
\* lines 14-21: fewer than three vectors get a fixed layout
SmallLayout(embeddings) ==
  IF Len(embeddings) = 0 THEN <<>>
  ELSE IF Len(embeddings) = 1 THEN <<Pos(0, 0)>>
  ELSE <<Pos(-PairDistance, 0), Pos(PairDistance, 0)>>

\* (variant: the exception of the reducer reaches the caller)
OnReducerExceptionPropagated(n) == Raised("reducer")
\* lines 59-64: the except block around the reducer and the post-processing
OnReducerException(n) == Returned(CircleLayout(n), "circle", 1, n_neighbors(n))

compute_2d_positions(embeddings, env) ==
  LET n == Len(embeddings)
  IN IF n < 2 THEN
       Returned(SmallLayout(embeddings), IF n = 1 THEN "single" ELSE "empty", 0, 0)
     ELSE IF n = 2 THEN
       Returned(SmallLayout(embeddings), "pair", 0, 0)
     ELSE IF Ragged(embeddings) /\ env.array_raises THEN
       Raised("array")
     ELSE IF ~Homogeneous(embeddings) \/ env.outcome.raises THEN
       OnReducerException(n)
     ELSE IF AnyStdBelowEps(env.outcome.raw) THEN
       Returned(Jittered(env.outcome.raw, env.randn), "jitter", 1, n_neighbors(n))
     ELSE
       Returned(Normalised(env.outcome.raw), "normalised", 1, n_neighbors(n))

\* ------------------------------------------------------------------- state
VARIABLES
  items_db,       \* mock_storage.items_db: item id -> [user_id, x, y]
  embeddings_db,  \* mock_storage.embeddings_db, in insertion order
  upload_lock,    \* upload.upload_lock: TRUE while locked
  next_id,        \* the next fresh uuid4
  req,            \* the requests in progress: position and local variables
  insert_log,     \* item id -> the length of the list its insert projected
  embeddings,     \* a direct call of compute_2d_positions: the list passed,
  env,            \*   what the reducer, randn and np.array do in that call,
  result,         \*   what the call returned,
  ppc,            \*   "ready" before the call, "returned" after it, "again"
                  \*   after a second call with the same list,
  previous        \*   what the first of the two calls returned

svars == <<items_db, embeddings_db, upload_lock, next_id, req, insert_log>>
pvars == <<embeddings, env, result, ppc, previous>>
vars == <<items_db, embeddings_db, upload_lock, next_id, req, insert_log,
          embeddings, env, result, ppc, previous>>

\* ------------------------------------------------------------------ bounds
NumReqs == 2
MaxItems == 3
MaxFiles == 2

Users == {"u1", "u2"}
Reqs == 1..NumReqs
\* upload_media and upload_from_instagram_reel are one kind, "upload": their
\* critical sections and what their handlers do to the store are the same
UploadKinds == {"upload", "upload_from_twitter"}
\* what generate_text_embedding returns: the list the embeddings API sent, whose
\* dimension the code does not fix, or the fallback list of line 222
UploadVectors == {VecA, VecC}
\* the sizes in MB of the files uploaded: small against the storage limit, so
\* that the storage check passes
FileSizes == {1}

\* ------------------------------------------------------------ mock_storage
\* (variant: the position is written to every item of the user)
create_item_moving_all(db, id, user_id, position, file_size) ==
  [i \in DOMAIN db \cup {id} |->
     IF i = id
     THEN [user_id |-> user_id, x |-> position[1], y |-> position[2],
           file_size |-> file_size]
     ELSE IF db[i].user_id = user_id
     THEN [db[i] EXCEPT !.x = position[1], !.y = position[2]]
     ELSE db[i]]
create_item(db, id, user_id, position, file_size) ==
  [i \in DOMAIN db \cup {id} |->
     IF i = id
     THEN [user_id |-> user_id, x |-> position[1], y |-> position[2],
           file_size |-> file_size]
     ELSE db[i]]

\* (variant: the vector is written to every row as well)
store_embedding_to_all(edb, item_id, vector) ==
  Append([k \in 1..Len(edb) |-> [item_id |-> edb[k].item_id, vector |-> vector]],
         [item_id |-> item_id, vector |-> vector])
store_embedding(edb, item_id, vector) ==
  IF \E k \in 1..Len(edb) : edb[k].item_id = item_id
  THEN [k \in 1..Len(edb) |->
          IF edb[k].item_id = item_id THEN [item_id |-> item_id, vector |-> vector]
          ELSE edb[k]]
  ELSE Append(edb, [item_id |-> item_id, vector |-> vector])

\* (variant: the rows of every user are returned)
InScopeOfAnyUser(db, e, user_id) == e.item_id \in DOMAIN db
InScope(db, e, user_id) == e.item_id \in DOMAIN db /\ db[e.item_id].user_id = user_id
get_all_embeddings(db, edb, user_id) ==
  SelectSeq(edb, LAMBDA e : InScope(db, e, user_id))

\* update_item and delete_item raise for a missing item or another user's item
\* (variant: the owner of the item is not compared with the caller)
PermittedAnyUser(db, item_id, user_id) == item_id \in DOMAIN db
Permitted(db, item_id, user_id) ==
  item_id \in DOMAIN db /\ db[item_id].user_id = user_id
update_item(db, item_id, position) ==
  [db EXCEPT ![item_id].x = position[1], ![item_id].y = position[2]]
delete_item_record(db, item_id) == [i \in DOMAIN db \ {item_id} |-> db[i]]
\* (variant: the embedding of the item stays)
delete_item_embedding_kept(edb, item_id) == edb
delete_item_embedding(edb, item_id) ==
  SelectSeq(edb, LAMBDA e : e.item_id # item_id)

\* get_all_items(user_id): the ids of the items of the user
get_all_items(db, user_id) == {i \in DOMAIN db : db[i].user_id = user_id}
RECURSIVE SumFileSize(_, _)
SumFileSize(db, ids) ==
  IF ids = {} THEN 0
  ELSE LET i == CHOOSE j \in ids : TRUE
       IN db[i].file_size + SumFileSize(db, ids \ {i})
\* supabase_service.is_user_pro: the accounts are accounts of the free tier
is_user_pro(user_id) == FALSE
storage_limit(user_id) ==
  IF is_user_pro(user_id) THEN STORAGE_LIMIT_PRO ELSE STORAGE_LIMIT
\* items.get_storage_info_internal, in MB; no run comes near the limit on the
\* bytes of all users together, which is left out
get_storage_info_internal(db, user_id) ==
  [used_bytes |-> SumFileSize(db, get_all_items(db, user_id)),
   limit_bytes |-> storage_limit(user_id)]
\* the storage check of the upload handlers: it raises 413 when the file would
\* take the user over the limit
StorageCheckPasses(db, user_id, total_size) ==
  get_storage_info_internal(db, user_id).used_bytes + total_size
    <= storage_limit(user_id)

\* --------------------------------------------------------- the insert path
VectorsOf(all_embeddings_data) ==
  [i \in 1..Len(all_embeddings_data) |-> all_embeddings_data[i].vector]
\* (variant: the item ids are taken in the opposite order)
ItemIdsOfReversed(all_embeddings_data) ==
  [i \in 1..Len(all_embeddings_data) |->
     all_embeddings_data[Len(all_embeddings_data) + 1 - i].item_id]
ItemIdsOf(all_embeddings_data) ==
  [i \in 1..Len(all_embeddings_data) |-> all_embeddings_data[i].item_id]
IsValid(emb, expected_dim) == emb.is_list /\ Len(emb.elems) = expected_dim
\* (variant: every stored vector is taken into the list)
FilterValidSkipped(all_embeddings, expected_dim) == all_embeddings
FilterValid(all_embeddings, expected_dim) ==
  SelectSeq(all_embeddings, LAMBDA emb : IsValid(emb, expected_dim))
\* (variant: the new vector is not appended)
valid_embeddings_without_new(all_embeddings_data, embedding) ==
  FilterValid(VectorsOf(all_embeddings_data), Len(embedding.elems))
valid_embeddings(all_embeddings_data, embedding) ==
  Append(FilterValid(VectorsOf(all_embeddings_data), Len(embedding.elems)), embedding)
\* (variant: the position of the first vector of the list is taken)
new_position_first(positions) == positions[1]
new_position(positions) == positions[Len(positions)]

\* async with upload_lock
\* (variant: the lock admits a request while another one holds it)
CanAcquireWhileHeld(locked) == TRUE
CanAcquire(locked) == ~locked
\* (variant: the end of the block leaves the lock held)
ReleaseOnExitSkipped(locked) == locked
ReleaseOnExit(locked) == FALSE
\* (variant: an exception leaves the block without releasing the lock)
ReleaseOnErrorSkipped(locked) == locked
ReleaseOnError(locked) == FALSE

\* The reducer's behaviours taken in the running system: it raises or it
\* spreads the rows.
SpreadRaw(n) ==
  [i \in 1..n |-> <<Fin(10 * (i % 2)), Fin(10 * ((i \div 2) % 2))>>]
AltRandn(n) == [i \in 1..n |-> IF i % 2 = 1 THEN <<-1, 1>> ELSE <<1, 0>>]
SystemOutcomes(n) ==
  IF n < 3 THEN {RaisingOutcome}
  ELSE {RaisingOutcome, [raises |-> FALSE, raw |-> SpreadRaw(n)]}
SystemEnvs(list) == EnvsOver(list, SystemOutcomes(Len(list)), {AltRandn(Len(list))})
DefaultEnv == [outcome |-> RaisingOutcome, randn |-> <<>>, array_raises |-> FALSE]

\* ---------------------------------------------------------------- requests
IdleReq ==
  [pc |-> "idle", kind |-> "none", user_id |-> "none", embedding |-> NotAList,
   valid_embeddings |-> <<>>, env |-> DefaultEnv, positions |-> <<>>, item |-> 0,
   files_left |-> 0, uploaded_items |-> <<>>, item_ids |-> <<>>, idx |-> 0,
   file_size |-> 0]

LowestIdle(r) == req[r].pc = "idle" /\ \A q \in 1..(r - 1) : req[q].pc # "idle"
FilesPlanned == SumSeq([r \in 1..NumReqs |-> req[r].files_left])
Budget == MaxItems - (next_id - 1) - FilesPlanned
IsUpload(r) == req[r].kind \in UploadKinds
InCritical(r) ==
  IsUpload(r) /\ req[r].pc \in {"get_all_embeddings", "create_item", "store_embedding"}

NoResult == Returned(<<>>, "none", 0, 0)

SystemInit ==
  /\ items_db = <<>>
  /\ embeddings_db = <<>>
  /\ upload_lock = FALSE
  /\ next_id = 1
  /\ req = [r \in Reqs |-> IdleReq]
  /\ insert_log = <<>>

\* Everything a handler does before its critical section, the storage check
\* included: a request that fails it is over with a 413, nothing done.  The
\* embedding is the one generate_text_embedding returned; file_size is the size
\* in MB of each file of the request.
Started(kind, user_id, files, embedding, file_size) ==
  [IdleReq EXCEPT !.pc = "lock", !.kind = kind, !.user_id = user_id,
                  !.embedding = embedding, !.files_left = files,
                  !.file_size = file_size]
StartUploadMedia(r, user_id, embedding, file_size) ==
  /\ LowestIdle(r)
  /\ Budget >= 1
  /\ StorageCheckPasses(items_db, user_id, file_size)
  /\ req' = [req EXCEPT ![r] = Started("upload", user_id, 1, embedding, file_size)]
  /\ UNCHANGED <<items_db, embeddings_db, upload_lock, next_id, insert_log, pvars>>
StartUploadInstagram(r, user_id, embedding, file_size) ==
  /\ LowestIdle(r)
  /\ Budget >= 1
  /\ StorageCheckPasses(items_db, user_id, file_size)
  /\ req' = [req EXCEPT ![r] = Started("upload", user_id, 1, embedding, file_size)]
  /\ UNCHANGED <<items_db, embeddings_db, upload_lock, next_id, insert_log, pvars>>
\* upload_from_twitter: the download, and the first file up to its critical section
StartUploadTwitter(r, user_id, files, embedding, file_size) ==
  /\ LowestIdle(r)
  /\ Budget >= files
  /\ StorageCheckPasses(items_db, user_id, files * file_size)
  /\ req' = [req EXCEPT ![r] = Started("upload_from_twitter", user_id, files,
                                       embedding, file_size)]
  /\ UNCHANGED <<items_db, embeddings_db, upload_lock, next_id, insert_log, pvars>>

Acquire(r) ==
  /\ req[r].pc = "lock"
  /\ CanAcquire(upload_lock)
  /\ upload_lock' = TRUE
  /\ req' = [req EXCEPT ![r].pc = "get_all_embeddings"]
  /\ UNCHANGED <<items_db, embeddings_db, next_id, insert_log, pvars>>

\* The except block of a handler, after an exception at any point of the try:
\* upload_media and upload_from_instagram_reel touch no record; upload_from_twitter
\* removes the storage objects of uploaded_items and, when that did not raise,
\* goes on to delete their records.  The request is over otherwise.
Handled(rq, removed) ==
  IF rq.kind = "upload_from_twitter" /\ rq.uploaded_items # <<>> /\ removed
  THEN [IdleReq EXCEPT !.pc = "cleanup", !.kind = rq.kind, !.user_id = rq.user_id,
                       !.uploaded_items = rq.uploaded_items, !.idx = 1]
  ELSE IdleReq

\* the snapshot read, the filter, the append and the projection
GetAllEmbeddings(r, e, removed) ==
  /\ req[r].pc = "get_all_embeddings"
  /\ LET all_embeddings_data == get_all_embeddings(items_db, embeddings_db, req[r].user_id)
         valid == valid_embeddings(all_embeddings_data, req[r].embedding)
         res == compute_2d_positions(valid, e)
     IN /\ e \in SystemEnvs(valid)
        /\ IF res.raised \/ res.positions = <<>>
           THEN /\ req' = [req EXCEPT ![r] = Handled(req[r], removed)]
                /\ upload_lock' = ReleaseOnError(upload_lock)
           ELSE /\ req' = [req EXCEPT ![r].pc = "create_item",
                                      ![r].valid_embeddings = valid, ![r].env = e,
                                      ![r].positions = res.positions]
                /\ UNCHANGED upload_lock
  /\ UNCHANGED <<items_db, embeddings_db, next_id, insert_log, pvars>>

CreateItem(r) ==
  /\ req[r].pc = "create_item"
  /\ items_db' = create_item(items_db, next_id, req[r].user_id,
                             new_position(req[r].positions), req[r].file_size)
  /\ next_id' = next_id + 1
  /\ insert_log' = [i \in DOMAIN insert_log \cup {next_id} |->
                      IF i = next_id THEN Len(req[r].valid_embeddings)
                      ELSE insert_log[i]]
  /\ req' = [req EXCEPT ![r].pc = "store_embedding", ![r].item = next_id,
                        ![r].files_left = @ - 1, ![r].valid_embeddings = <<>>,
                        ![r].positions = <<>>, ![r].env = DefaultEnv]
  /\ UNCHANGED <<embeddings_db, upload_lock, pvars>>

\* store_embedding, the end of the critical section and what follows it: the
\* response, or in upload_from_twitter the append to uploaded_items
StoreEmbedding(r) ==
  /\ req[r].pc = "store_embedding"
  /\ embeddings_db' = store_embedding(embeddings_db, req[r].item, req[r].embedding)
  /\ upload_lock' = ReleaseOnExit(upload_lock)
  /\ req' = [req EXCEPT ![r] =
               IF req[r].files_left > 0
               THEN [req[r] EXCEPT !.pc = "next_file",
                                   !.uploaded_items = Append(@, req[r].item)]
               ELSE IdleReq]
  /\ UNCHANGED <<items_db, next_id, insert_log, pvars>>

\* a store call of the critical section raises
StoreCallFails(r, call, removed) ==
  /\ req[r].pc = call
  /\ IsUpload(r)
  /\ upload_lock' = ReleaseOnError(upload_lock)
  /\ req' = [req EXCEPT ![r] = Handled(req[r], removed)]
  /\ UNCHANGED <<items_db, embeddings_db, next_id, insert_log, pvars>>
GetAllEmbeddingsFails(r, removed) == StoreCallFails(r, "get_all_embeddings", removed)
CreateItemFails(r, removed) == StoreCallFails(r, "create_item", removed)
StoreEmbeddingFails(r, removed) == StoreCallFails(r, "store_embedding", removed)

\* upload_from_twitter: the next file of the loop, up to its critical section
TwitterNextFile(r, embedding) ==
  /\ req[r].pc = "next_file"
  /\ req' = [req EXCEPT ![r].pc = "lock", ![r].embedding = embedding, ![r].item = 0]
  /\ UNCHANGED <<items_db, embeddings_db, upload_lock, next_id, insert_log, pvars>>
TwitterNextFileFails(r, removed) ==
  /\ req[r].pc = "next_file"
  /\ req' = [req EXCEPT ![r] = Handled(req[r], removed)]
  /\ UNCHANGED <<items_db, embeddings_db, upload_lock, next_id, insert_log, pvars>>

\* one delete_item of the handler's loop; an exception of it is swallowed
TwitterCleanupDelete(r, ok) ==
  /\ req[r].pc = "cleanup"
  /\ LET item_id == req[r].uploaded_items[req[r].idx]
         done == ok /\ Permitted(items_db, item_id, req[r].user_id)
     IN /\ items_db' = IF done THEN delete_item_record(items_db, item_id) ELSE items_db
        /\ embeddings_db' = IF done THEN delete_item_embedding(embeddings_db, item_id)
                            ELSE embeddings_db
        /\ insert_log' = IF done THEN delete_item_record(insert_log, item_id)
                         ELSE insert_log
  /\ req' = [req EXCEPT ![r] = IF req[r].idx = Len(req[r].uploaded_items)
                               THEN IdleReq ELSE [req[r] EXCEPT !.idx = @ + 1]]
  /\ UNCHANGED <<upload_lock, next_id, pvars>>

\* recompute_positions up to its loop (lines 233-245): the snapshot read, the
\* early return for fewer than two embeddings, and the projection, whose
\* exception ends the request with a 500
NoWrites(response) ==
  [response |-> response, item_ids |-> <<>>, vectors |-> <<>>, positions |-> <<>>]
\* (variant: without the early return for fewer than two embeddings)
RecomputeSnapshotUnguarded(db, edb, user_id, e) ==
  LET embeddings_data == get_all_embeddings(db, edb, user_id)
      vectors == VectorsOf(embeddings_data)
      res == compute_2d_positions(vectors, e)
  IN IF res.raised THEN NoWrites("500")
     ELSE [response |-> "Recomputed", item_ids |-> ItemIdsOf(embeddings_data),
           vectors |-> vectors, positions |-> res.positions]
RecomputeSnapshot(db, edb, user_id, e) ==
  LET embeddings_data == get_all_embeddings(db, edb, user_id)
      vectors == VectorsOf(embeddings_data)
      res == compute_2d_positions(vectors, e)
  IN IF Len(embeddings_data) < 2 THEN NoWrites("Not enough items")
     ELSE IF res.raised THEN NoWrites("500")
     ELSE [response |-> "Recomputed", item_ids |-> ItemIdsOf(embeddings_data),
           vectors |-> vectors, positions |-> res.positions]
\* what the projection of a recompute can meet
RecomputeEnvs(vectors) ==
  IF Len(vectors) < 2 THEN {DefaultEnv} ELSE SystemEnvs(vectors)

\* recompute_positions: the snapshot read and the projection; with fewer than
\* two embeddings, or when the projection raises, the request is over
RecomputeGet(r, user_id, e) ==
  /\ LowestIdle(r)
  /\ e \in RecomputeEnvs(VectorsOf(get_all_embeddings(items_db, embeddings_db, user_id)))
  /\ LET snapshot == RecomputeSnapshot(items_db, embeddings_db, user_id, e)
     IN req' = [req EXCEPT ![r] =
                  IF snapshot.response # "Recomputed" THEN IdleReq
                  ELSE [IdleReq EXCEPT !.pc = "update_item",
                                       !.kind = "recompute_positions",
                                       !.user_id = user_id,
                                       !.item_ids = snapshot.item_ids,
                                       !.positions = snapshot.positions, !.idx = 1]]
  /\ UNCHANGED <<items_db, embeddings_db, upload_lock, next_id, insert_log, pvars>>

\* recompute_positions: one update_item of the loop; it raises for an item that
\* is gone, and the request is over
RecomputeUpdate(r) ==
  /\ req[r].pc = "update_item"
  /\ LET item_id == req[r].item_ids[req[r].idx]
     IN IF Permitted(items_db, item_id, req[r].user_id)
        THEN /\ items_db' = update_item(items_db, item_id, req[r].positions[req[r].idx])
             /\ req' = [req EXCEPT ![r] = IF req[r].idx = Len(req[r].item_ids)
                                          THEN IdleReq
                                          ELSE [req[r] EXCEPT !.idx = @ + 1]]
        ELSE /\ req' = [req EXCEPT ![r] = IdleReq]
             /\ UNCHANGED items_db
  /\ UNCHANGED <<embeddings_db, upload_lock, next_id, insert_log, pvars>>

\* DELETE /items/{item_id}
DeleteItem(user_id, item_id) ==
  /\ Permitted(items_db, item_id, user_id)
  /\ items_db' = delete_item_record(items_db, item_id)
  /\ embeddings_db' = delete_item_embedding(embeddings_db, item_id)
  /\ insert_log' = delete_item_record(insert_log, item_id)
  /\ UNCHANGED <<upload_lock, next_id, req, pvars>>

ProjectOff ==
  /\ embeddings = <<>>
  /\ env = DefaultEnv
  /\ result = NoResult
  /\ ppc = "off"
  /\ previous = NoResult

Init == SystemInit /\ ProjectOff

UploadsNext ==
  \/ \E r \in Reqs, u \in Users, v \in UploadVectors, s \in FileSizes :
       StartUploadMedia(r, u, v, s)
  \/ \E r \in Reqs, u \in Users, v \in UploadVectors, s \in FileSizes :
       StartUploadInstagram(r, u, v, s)
  \/ \E r \in Reqs, u \in Users, v \in UploadVectors, f \in 1..MaxFiles :
       \E s \in FileSizes : StartUploadTwitter(r, u, f, v, s)
  \/ \E r \in Reqs : Acquire(r)
  \/ \E r \in Reqs, removed \in BOOLEAN :
       \E e \in SystemEnvs(valid_embeddings(
                  get_all_embeddings(items_db, embeddings_db, req[r].user_id),
                  req[r].embedding)) : GetAllEmbeddings(r, e, removed)
  \/ \E r \in Reqs : CreateItem(r)
  \/ \E r \in Reqs : StoreEmbedding(r)
  \/ \E r \in Reqs, removed \in BOOLEAN : GetAllEmbeddingsFails(r, removed)
  \/ \E r \in Reqs, removed \in BOOLEAN : CreateItemFails(r, removed)
  \/ \E r \in Reqs, removed \in BOOLEAN : StoreEmbeddingFails(r, removed)
  \/ \E r \in Reqs, v \in UploadVectors : TwitterNextFile(r, v)
  \/ \E r \in Reqs, removed \in BOOLEAN : TwitterNextFileFails(r, removed)

RecomputeNext ==
  \/ \E r \in Reqs, u \in Users :
       \E e \in RecomputeEnvs(VectorsOf(get_all_embeddings(items_db, embeddings_db, u))) :
         RecomputeGet(r, u, e)
  \/ \E r \in Reqs : RecomputeUpdate(r)

DeletesNext ==
  \/ \E r \in Reqs, ok \in BOOLEAN : TwitterCleanupDelete(r, ok)
  \/ \E u \in Users, i \in 1..MaxItems : DeleteItem(u, i)

Next == UploadsNext \/ RecomputeNext \/ DeletesNext
Spec == Init /\ [][Next]_vars

\* the same system in runs without any delete
SpecNoDelete == Init /\ [][UploadsNext \/ RecomputeNext]_vars

\* the uploads alone: runs without any recompute and without any delete
SpecUploads == Init /\ [][UploadsNext]_vars

\* upload_media requests with files that are large against the storage limit
LargeFileSizes == {20, 30}
QuotaNext ==
  \/ \E r \in Reqs, u \in Users, s \in LargeFileSizes : StartUploadMedia(r, u, VecA, s)
  \/ \E r \in Reqs : Acquire(r)
  \/ \E r \in Reqs, removed \in BOOLEAN :
       \E e \in SystemEnvs(valid_embeddings(
                  get_all_embeddings(items_db, embeddings_db, req[r].user_id),
                  req[r].embedding)) : GetAllEmbeddings(r, e, removed)
  \/ \E r \in Reqs : CreateItem(r)
  \/ \E r \in Reqs : StoreEmbedding(r)
  \/ \E r \in Reqs, removed \in BOOLEAN : GetAllEmbeddingsFails(r, removed)
  \/ \E r \in Reqs, removed \in BOOLEAN : CreateItemFails(r, removed)
  \/ \E r \in Reqs, removed \in BOOLEAN : StoreEmbeddingFails(r, removed)
SpecQuota == Init /\ [][QuotaNext]_vars

\* upload_from_social: the handler of the platform of the URL is awaited
\* directly, outside of any lock
Platforms == {"twitter", "instagram"}
UploadFromSocial(r, platform, user_id, files, embedding, file_size) ==
  IF platform = "twitter"
  THEN StartUploadTwitter(r, user_id, files, embedding, file_size)
  ELSE files = 1 /\ StartUploadInstagram(r, user_id, embedding, file_size)
SocialNext ==
  \E r \in Reqs, p \in Platforms, u \in Users, f \in 1..MaxFiles, s \in FileSizes :
    UploadFromSocial(r, p, u, f, VecA, s)

\* The uploads under fair scheduling.  asyncio.Lock wakes its waiters in the
\* order they came, so a request that waits for upload_lock is not passed over
\* for ever; every store call and every projection of a request inside the
\* critical section returns or raises.
SectionStep(r) ==
  /\ InCritical(r)
  /\ \/ \E removed \in BOOLEAN :
          \E e \in SystemEnvs(valid_embeddings(
                     get_all_embeddings(items_db, embeddings_db, req[r].user_id),
                     req[r].embedding)) : GetAllEmbeddings(r, e, removed)
     \/ \E removed \in BOOLEAN : GetAllEmbeddingsFails(r, removed)
     \/ CreateItem(r)
     \/ \E removed \in BOOLEAN : CreateItemFails(r, removed)
     \/ StoreEmbedding(r)
     \/ \E removed \in BOOLEAN : StoreEmbeddingFails(r, removed)
\* Request r, inside the critical section, takes its next step: the call it is
\* at raises or returns.  These are the steps of SectionStep(r), the one of the
\* snapshot read and the projection given by where it takes the request.
SectionProgress(r) ==
  /\ InCritical(r)
  /\ \/ \E removed \in BOOLEAN : StoreCallFails(r, req[r].pc, removed)
     \/ CreateItem(r)
     \/ StoreEmbedding(r)
     \/ req[r].pc = "get_all_embeddings" /\ req'[r].pc = "create_item"
\* the requests that take upload_lock, all with one embedding: the lock is one
\* for every user and every vector
FairNext ==
  \/ \E r \in Reqs, u \in Users, s \in FileSizes : StartUploadMedia(r, u, VecA, s)
  \/ SocialNext
  \/ \E r \in Reqs : Acquire(r)
  \/ \E r \in Reqs : SectionStep(r)
  \/ \E r \in Reqs : TwitterNextFile(r, VecA)
  \/ \E r \in Reqs, removed \in BOOLEAN : TwitterNextFileFails(r, removed)
  \/ \E r \in Reqs, ok \in BOOLEAN : TwitterCleanupDelete(r, ok)
SpecFair ==
  /\ Init
  /\ [][FairNext]_vars
  /\ \A r \in Reqs : SF_vars(Acquire(r))
  /\ \A r \in Reqs : WF_vars(SectionProgress(r))

\* The same system over a store that already holds a row whose vector is not a
\* flat list, the kind of value line 292 of upload.py tests for.
LegacyInit ==
  /\ items_db = create_item(<<>>, 1, "u1", Pos(0, 0), 1)
  /\ embeddings_db = store_embedding(<<>>, 1, NotAList)
  /\ upload_lock = FALSE
  /\ next_id = 2
  /\ req = [r \in Reqs |-> IdleReq]
  /\ insert_log = <<>>
  /\ ProjectOff
SpecLegacy == LegacyInit /\ [][Next]_vars

\* ------------------------------------------------ the edits of items.py
\* where a user drags an item to
DragTargets == {Pos(250, 250)}
\* PATCH /items/{item_id}/position
UpdatePosition(user_id, item_id, position) ==
  /\ Permitted(items_db, item_id, user_id)
  /\ items_db' = update_item(items_db, item_id, position)
  /\ UNCHANGED <<embeddings_db, upload_lock, next_id, req, insert_log, pvars>>
\* PATCH /items/{item_id} with name, description or keywords: no field of the
\* item that is kept here changes
UpdateItem(user_id, item_id) ==
  /\ Permitted(items_db, item_id, user_id)
  /\ UNCHANGED vars
EditsNext ==
  \/ \E u \in Users, i \in 1..MaxItems, p \in DragTargets : UpdatePosition(u, i, p)
  \/ \E u \in Users, i \in 1..MaxItems : UpdateItem(u, i)
\* the system with the edits
SpecEdits == Init /\ [][Next \/ EditsNext]_vars

\* ------------------------------------------- compute_2d_positions on its own
InputLists == UNION {SeqsOfLen(Vectors, n) : n \in 0..MaxN}

ProjectInit ==
  /\ SystemInit
  /\ embeddings \in InputLists
  /\ env \in Envs(embeddings)
  /\ result = NoResult
  /\ ppc = "ready"
  /\ previous = NoResult

Project ==
  /\ ppc = "ready"
  /\ result' = compute_2d_positions(embeddings, env)
  /\ ppc' = "returned"
  /\ UNCHANGED <<embeddings, env, previous, svars>>

SpecProject == ProjectInit /\ [][Project]_vars

\* ------------------------------- two calls with one list in one process
\* What the second call meets: the reducer is seeded (random_state=42, line 37)
\* and numpy is the same, so both do what they did in the first call; randn
\* (line 50) draws on from the process-wide generator.
Redraws(list, e) ==
  {d \in EnvsOver(list, {e.outcome}, SeqsOfLen(RandnDraws, Len(list))) :
     d.array_raises = e.array_raises}

ProjectAgain ==
  /\ ppc = "returned"
  /\ env' \in Redraws(embeddings, env)
  /\ result' = compute_2d_positions(embeddings, env')
  /\ previous' = result
  /\ ppc' = "again"
  /\ UNCHANGED <<embeddings, svars>>

SpecRepeat == ProjectInit /\ [][Project \/ ProjectAgain]_vars

\* ------------------------------------------- the neighbour count of line 28
\* Calls with up to MaxSamples vectors of one dimension.  The count is fixed
\* before the reducer runs, whatever the reducer then does; it raises here.
MaxSamples == 60
SampleLists == {[i \in 1..n |-> VecA] : n \in 0..MaxSamples}
NeighborsInit ==
  /\ SystemInit
  /\ embeddings \in SampleLists
  /\ env \in EnvsOver(embeddings, {RaisingOutcome}, {NoRandn(Len(embeddings))})
  /\ result = NoResult
  /\ ppc = "ready"
  /\ previous = NoResult
SpecNeighbors == NeighborsInit /\ [][Project]_vars

\* ================================================================== claims

\* ---- C1
\* C1: at any time at most one upload request, of any handler and any user, is
\* between its get_all_embeddings snapshot read and its store_embedding call.
C1_MutualExclusion == Cardinality({r \in Reqs : InCritical(r)}) <= 1
\* one request of one user is inside the section while a request of another
\* user waits for the lock
C1_Witness ==
  \E r, q \in Reqs :
    /\ InCritical(r) /\ req[r].pc = "create_item"
    /\ req[q].pc = "lock" /\ IsUpload(q)
    /\ req[q].user_id # req[r].user_id

\* ---- C2
\* The stored embeddings of the scope and dimension of entry k that precede it
EarlierValid(k) ==
  {m \in 1..(k - 1) :
     /\ embeddings_db[m].item_id \in DOMAIN items_db
     /\ items_db[embeddings_db[m].item_id].user_id
          = items_db[embeddings_db[k].item_id].user_id
     /\ Shape(embeddings_db[m].vector) = Shape(embeddings_db[k].vector)}
\* C2: without deletes, inserts are serial: every completed insert projected
\* the valid embeddings of all inserts of its scope completed before it plus its
\* own vector (n+1, n+2, ... vectors), no two read the same snapshot, and each
\* leaves exactly one stored embedding.
C2_SerialInserts ==
  /\ \A k \in 1..Len(embeddings_db) :
       /\ embeddings_db[k].item_id \in DOMAIN insert_log
       /\ insert_log[embeddings_db[k].item_id] = Cardinality(EarlierValid(k)) + 1
  /\ \A k, m \in 1..Len(embeddings_db) :
       embeddings_db[k].item_id = embeddings_db[m].item_id => k = m
\* two inserts into one scope have completed, having projected 1 and 2
\* vectors, and a further upload of that scope is waiting for the lock
C2_Witness ==
  /\ Len(embeddings_db) = 2
  /\ \A k \in 1..2 : /\ embeddings_db[k].item_id \in DOMAIN insert_log
                     /\ insert_log[embeddings_db[k].item_id] = k
  /\ 1 \in EarlierValid(2)
  /\ \E q \in Reqs :
       /\ req[q].pc = "lock" /\ IsUpload(q)
       /\ req[q].user_id = items_db[embeddings_db[2].item_id].user_id

\* ---- C3
\* C3: upload_lock is held exactly while some upload request is inside the
\* critical section; after an exception inside it the lock is free.
C3_LockReleased == upload_lock <=> (\E r \in Reqs : InCritical(r))
\* store_embedding has raised inside the section (the item it was for is left
\* without an embedding and no request holds it) and the lock is free
C3_Witness ==
  /\ ~upload_lock
  /\ \A r \in Reqs : req[r].pc = "idle"
  /\ \E i \in DOMAIN items_db :
       \A k \in 1..Len(embeddings_db) : embeddings_db[k].item_id # i

\* ---- C4
InRecompute(r) == req[r].kind = "recompute_positions" /\ req[r].pc = "update_item"
\* C4: recompute_positions runs under the exclusive section of the inserts: no
\* recompute is between its snapshot read and its last position write while an
\* upload is between its snapshot read and its store_embedding call.
C4_RecomputeExcluded == ~(\E r, q \in Reqs : InRecompute(r) /\ InCritical(q))

\* ---- C5
\* The indices of the stored embeddings of a user that are lists of a dimension
ValidIndices(user_id, dim) ==
  {k \in 1..Len(embeddings_db) :
     /\ embeddings_db[k].item_id \in DOMAIN items_db
     /\ items_db[embeddings_db[k].item_id].user_id = user_id
     /\ embeddings_db[k].vector.is_list
     /\ Len(embeddings_db[k].vector.elems) = dim}
NthOf(S, j) == CHOOSE k \in S : Cardinality({m \in S : m < k}) = j - 1
\* list is the valid stored embeddings of the user in store order, then new
SnapshotThenNew(list, user_id, new) ==
  LET idx == ValidIndices(user_id, Len(new.elems))
  IN /\ Len(list) = Cardinality(idx) + 1
     /\ list[Len(list)] = new
     /\ \A j \in 1..(Len(list) - 1) : list[j] = embeddings_db[NthOf(idx, j)].vector
\* the step of request r from the snapshot read to the projected list
ProjectedStep(r) ==
  /\ req[r].pc = "get_all_embeddings" /\ req'[r].pc = "create_item"
\* the step of request r that creates its item
CreatedStep(r) ==
  /\ req[r].pc = "create_item" /\ req'[r].pc = "store_embedding"
\* C5: the list an insert hands to the projection is the filtered snapshot in
\* store order followed by the new vector, and the (x, y) persisted for the new
\* item is the last element of the projection result for that list.
C5_IndexInvariant ==
  [][\A r \in Reqs :
       /\ ProjectedStep(r) =>
            /\ SnapshotThenNew(req'[r].valid_embeddings, req[r].user_id,
                               req[r].embedding)
            /\ req'[r].positions
                 = compute_2d_positions(req'[r].valid_embeddings, req'[r].env).positions
            /\ Len(req'[r].positions) = Len(req'[r].valid_embeddings)
       /\ CreatedStep(r) =>
            /\ req'[r].item \in DOMAIN items_db' \ DOMAIN items_db
            /\ <<items_db'[req'[r].item].x, items_db'[req'[r].item].y>>
                 = req[r].positions[Len(req[r].positions)]]_vars
\* the third item of a scope was projected in a list of two, the stored vector
\* of another dimension filtered out, and has the second position of the pair
C5_Witness ==
  \E i \in DOMAIN items_db :
    /\ i \in DOMAIN insert_log /\ insert_log[i] = 2
    /\ items_db[i].x = Fin(500) /\ items_db[i].y = Fin(0)
    /\ Len(embeddings_db) = 3
    /\ embeddings_db[3].item_id = i
    /\ \A k \in 1..3 : /\ embeddings_db[k].item_id \in DOMAIN items_db
                       /\ items_db[embeddings_db[k].item_id].user_id = items_db[i].user_id

\* ---- C6
HasEmbedding(i) == \E k \in 1..Len(embeddings_db) : embeddings_db[k].item_id = i
\* C6: a store failure during an insert persists nothing: every item record has
\* its embedding, unless the upload that created it is still about to store it.
C6_AllOrNothing ==
  \A i \in DOMAIN items_db :
    \/ HasEmbedding(i)
    \/ \E r \in Reqs : req[r].pc = "store_embedding" /\ req[r].item = i
\* an upload has returned after store_embedding raised: its item record exists
\* without an embedding and no request is in progress
C6_Witness ==
  /\ \A r \in Reqs : req[r].pc = "idle"
  /\ \E i \in DOMAIN items_db : ~HasEmbedding(i) /\ i \in DOMAIN insert_log
  /\ Len(embeddings_db) = 1

\* ---- C7
Dot(p, q) == p[1][2] * q[1][2] + p[2][2] * q[2][2]
Cross(p, q) == p[1][2] * q[2][2] - p[2][2] * q[1][2]
\* n finite points, each at distance 600 from the origin up to rounding, the
\* first at angle 0 and each next one a counter-clockwise step of 2*pi/n on: the
\* i-th point (from 0) is at angle 2*pi*i/n
OnCircle(positions, n) ==
  /\ Len(positions) = n
  /\ \A k \in 1..n : PosFinite(positions[k])
  /\ \A k \in 1..n : Abs(Dot(positions[k], positions[k]) - 600 * 600) <= 2400
  /\ positions[1] = <<Fin(600), Fin(0)>>
  /\ \A k \in 1..n :
       LET next == positions[(k % n) + 1]
       IN /\ Cross(positions[k], next) > 0
          /\ Abs(Dot(positions[k], next) - Dot(positions[1], positions[2])) <= 2400
          /\ \A j \in 1..n : j # k => Dot(positions[k], positions[j])
                                        <= Dot(positions[k], next) + 2400
\* position i is row i of the reducer's output normalised: on each finite axis
\* the positions are ordered as the rows are
RowsNormalised(positions, raw) ==
  \A axis \in 1..2 : ColumnFinite(raw, axis) =>
    \A i, j \in 1..Len(raw) :
      /\ IsFinite(positions[i][axis])
      /\ raw[i][axis][2] < raw[j][axis][2] => positions[i][axis][2] < positions[j][axis][2]
      /\ raw[i][axis][2] = raw[j][axis][2] => positions[i][axis][2] = positions[j][axis][2]
\* position i is row i of the reducer's output plus 200 times draw i
RowsJittered(positions, raw, randn) ==
  \A i \in 1..Len(raw), axis \in 1..2 : IsFinite(raw[i][axis]) =>
    /\ IsFinite(positions[i][axis])
    /\ positions[i][axis][2] * 1000000 <= raw[i][axis][2] + randn[i][axis] * 200000000
    /\ raw[i][axis][2] + randn[i][axis] * 200000000 < (positions[i][axis][2] + 1) * 1000000
\* C7: for a list of N vectors of one dimension compute_2d_positions returns
\* exactly N positions, the i-th belonging to the i-th vector, on every branch
\* (N=0, N=1, N=2, normalised, jittered, fallback circle).
C7_OnePositionPerInput ==
  (ppc = "returned" /\ Homogeneous(embeddings)) =>
     LET n == Len(embeddings)
         raw == env.outcome.raw
         positions == result.positions
     IN /\ ~result.raised
        /\ Len(positions) = n
        /\ n = 2 => positions[1][1][2] < positions[2][1][2]
        /\ (n >= 3 /\ env.outcome.raises) => OnCircle(positions, n)
        /\ (n >= 3 /\ ~env.outcome.raises /\ result.branch = "jitter") =>
             RowsJittered(positions, raw, env.randn)
        /\ (n >= 3 /\ ~env.outcome.raises /\ result.branch # "jitter") =>
             RowsNormalised(positions, raw)
\* three vectors of one dimension, the reducer's rows spread with the first
\* row rightmost and the second leftmost, and the positions in that order
C7_Witness ==
  /\ ppc = "returned" /\ Homogeneous(embeddings) /\ Len(embeddings) = 3
  /\ result.branch = "normalised"
  /\ Len(result.positions) = 3
  /\ PosFinite(result.positions[1]) /\ PosFinite(result.positions[2])
  /\ PosFinite(result.positions[3])
  /\ result.positions[2][1][2] < result.positions[3][1][2]
  /\ result.positions[3][1][2] < result.positions[1][1][2]

ListToProject(r) ==
  valid_embeddings(get_all_embeddings(items_db, embeddings_db, req[r].user_id),
                   req[r].embedding)
NonFiniteRaw(raw) == \E i \in 1..Len(raw) : ~PosFinite(raw[i])
\* C10: when the reducer returns, for N>=3, an output holding a NaN or an
\* infinity, compute_2d_positions discards it and returns the circle layout: no
\* returned coordinate is non-finite.
C10_NonFiniteDiscarded ==
  (ppc = "returned" /\ Len(embeddings) >= 3 /\ Homogeneous(embeddings)
     /\ ~env.outcome.raises /\ NonFiniteRaw(env.outcome.raw)) =>
    /\ ~result.raised
    /\ OnCircle(result.positions, Len(embeddings))
\* the reducer returned a NaN and a returned coordinate is NaN
C10_Witness ==
  /\ ppc = "returned" /\ Len(embeddings) >= 3 /\ Homogeneous(embeddings)
  /\ ~env.outcome.raises /\ NonFiniteRaw(env.outcome.raw)
  /\ ~result.raised
  /\ \E i \in 1..Len(result.positions) : result.positions[i][1] = NaN

\* ---- C11
\* C11: compute_2d_positions is deterministic within one process: a second call
\* with the same list returns the positions the first call returned, on every
\* branch, the jitter branch included.
C11_Deterministic == ppc = "again" => result = previous
\* the same three vectors were projected twice, both calls took the jitter
\* branch, and the two position lists differ
C11_Witness ==
  /\ ppc = "again" /\ Len(embeddings) = 3
  /\ previous.branch = "jitter" /\ result.branch = "jitter"
  /\ result.positions # previous.positions

\* ---- C12
\* the step of request r that stores its embedding
StoredStep(r) ==
  /\ req[r].pc = "store_embedding"
  /\ Len(embeddings_db') = Len(embeddings_db) + 1
\* every stored row is in the store after the step as it was before it
StorePreserved ==
  /\ Len(embeddings_db') >= Len(embeddings_db)
  /\ \A k \in 1..Len(embeddings_db) : embeddings_db'[k] = embeddings_db[k]
\* C12: in the insert path a stored vector that is not a list, or whose length
\* differs from the new vector's, is left out of the projected list, stays in
\* the store unmodified, and the insert completes.
C12_DefectsExcluded ==
  /\ [](\A r \in Reqs : (IsUpload(r) /\ req[r].pc = "get_all_embeddings") =>
          /\ \A j \in 1..Len(ListToProject(r)) :
               /\ ListToProject(r)[j].is_list
               /\ Len(ListToProject(r)[j].elems) = Len(req[r].embedding.elems)
          /\ \A e \in SystemEnvs(ListToProject(r)) :
               ~compute_2d_positions(ListToProject(r), e).raised)
  /\ [][\A r \in Reqs :
          (ProjectedStep(r) \/ CreatedStep(r) \/ StoredStep(r)) => StorePreserved]_vars
\* a user whose store holds a non-list vector and a vector of three components
\* has inserted a vector of two components: it was projected alone, and the two
\* other rows are in the store as they were
C12_Witness ==
  /\ Len(embeddings_db) = 3
  /\ embeddings_db[1].vector = NotAList
  /\ embeddings_db[2].vector = VecC
  /\ embeddings_db[3].vector = VecA
  /\ \A k \in 1..3 : /\ embeddings_db[k].item_id \in DOMAIN items_db
                     /\ items_db[embeddings_db[k].item_id].user_id = "u1"
  /\ embeddings_db[3].item_id \in DOMAIN insert_log
  /\ insert_log[embeddings_db[3].item_id] = 1

\* ---- C13
\* the vectors a recompute of user_id reads
ScopeVectors(user_id) == VectorsOf(get_all_embeddings(items_db, embeddings_db, user_id))
\* C13: when the stored vectors of a scope include one whose dimension differs
\* from the others, or that is not a flat list, recompute_positions leaves
\* it out and completes, writing positions for the remaining items only.
C13_RecomputeExcludesDefects ==
  \A u \in Users :
    (Len(ScopeVectors(u)) >= 2 /\ ~Homogeneous(ScopeVectors(u))) =>
      \A e \in RecomputeEnvs(ScopeVectors(u)) :
        LET snapshot == RecomputeSnapshot(items_db, embeddings_db, u, e)
        IN /\ snapshot.response = "Recomputed"
           /\ Len(snapshot.item_ids) < Len(ScopeVectors(u))
           /\ Homogeneous(snapshot.vectors)
\* a recompute is writing positions for three items whose stored vectors are
\* not of one dimension
C13_Witness ==
  \E r \in Reqs :
    /\ req[r].kind = "recompute_positions" /\ req[r].pc = "update_item"
    /\ Len(req[r].item_ids) = 3
    /\ ItemIdsOf(get_all_embeddings(items_db, embeddings_db, req[r].user_id))
         = req[r].item_ids
    /\ ~Homogeneous(ScopeVectors(req[r].user_id))

\* ---- C14
\* C14: for every K >= 0 a recompute on a scope holding K items with
\* embeddings reports K items updated and overwrites the position of each of the
\* K items with its freshly projected position, K = 0 and K = 1 included.
C14_RecomputeWritesAll ==
  \A u \in Users :
    \A e \in RecomputeEnvs(ScopeVectors(u)) :
      LET snapshot == RecomputeSnapshot(items_db, embeddings_db, u, e)
      IN Homogeneous(ScopeVectors(u)) =>
           /\ snapshot.response = "Recomputed"
           /\ Len(snapshot.item_ids) = Len(ScopeVectors(u))
           /\ Len(snapshot.positions) = Len(ScopeVectors(u))
\* a scope holds one item with an embedding, placed away from the origin, and
\* a recompute of it writes nothing
C14_Witness ==
  \E u \in Users :
    /\ Len(ScopeVectors(u)) = 1
    /\ RecomputeSnapshot(items_db, embeddings_db, u, DefaultEnv).item_ids = <<>>
    /\ \E i \in DOMAIN items_db :
         /\ items_db[i].user_id = u /\ HasEmbedding(i)
         /\ items_db[i].x # Fin(0)

\* ---- C15
\* The indices of the stored embeddings whose item belongs to a user
ScopeIndices(user_id) ==
  {k \in 1..Len(embeddings_db) :
     /\ embeddings_db[k].item_id \in DOMAIN items_db
     /\ items_db[embeddings_db[k].item_id].user_id = user_id}
\* the step in which recompute r takes its snapshot and projects it
SnapshotStep(r) == req[r].pc = "idle" /\ req'[r].pc = "update_item"
\* a step of the update loop of recompute r
WriteStep(r) == req[r].pc = "update_item" /\ req'[r] # req[r]
\* C15: in a recompute the positions correspond 1:1 and in order to the
\* snapshot: the item of the i-th snapshot entry is written the i-th element of
\* the projection of the snapshot's vectors, and no other item is written.
C15_RecomputeInOrder ==
  [][\A r \in Reqs :
       /\ SnapshotStep(r) =>
            LET idx == ScopeIndices(req'[r].user_id)
                vectors == [i \in 1..Cardinality(idx) |->
                              embeddings_db[NthOf(idx, i)].vector]
            IN /\ Len(req'[r].item_ids) = Cardinality(idx)
               /\ Len(req'[r].positions) = Cardinality(idx)
               /\ req'[r].idx = 1
               /\ \A i \in 1..Cardinality(idx) :
                    req'[r].item_ids[i] = embeddings_db[NthOf(idx, i)].item_id
               /\ \E e \in RecomputeEnvs(vectors) :
                    req'[r].positions = compute_2d_positions(vectors, e).positions
       /\ WriteStep(r) =>
            LET i == req[r].idx
                item_id == req[r].item_ids[i]
            IN /\ DOMAIN items_db' = DOMAIN items_db
               /\ \A j \in DOMAIN items_db : j # item_id => items_db'[j] = items_db[j]
               /\ item_id \in DOMAIN items_db =>
                    \/ items_db'[item_id] = items_db[item_id] /\ req'[r].pc = "idle"
                    \/ /\ items_db'[item_id].user_id = items_db[item_id].user_id
                       /\ <<items_db'[item_id].x, items_db'[item_id].y>>
                            = req[r].positions[i]
               /\ \/ req'[r].pc = "idle"
                  \/ /\ req'[r].item_ids = req[r].item_ids
                     /\ req'[r].positions = req[r].positions
                     /\ req'[r].idx = i + 1]_vars
\* a recompute over three items has written the first point of its projection
\* to the first item of its snapshot and is about to write the second item,
\* which is still where its insert put it
C15_Witness ==
  \E r \in Reqs :
    /\ req[r].kind = "recompute_positions" /\ req[r].pc = "update_item"
    /\ Len(req[r].item_ids) = 3 /\ req[r].idx = 2
    /\ req[r].item_ids[1] \in DOMAIN items_db
    /\ <<items_db[req[r].item_ids[1]].x, items_db[req[r].item_ids[1]].y>>
         = req[r].positions[1]
    /\ req[r].positions[1] # req[r].positions[2]
    /\ req[r].item_ids[2] \in DOMAIN items_db
    /\ <<items_db[req[r].item_ids[2]].x, items_db[req[r].item_ids[2]].y>>
         = <<Fin(500), Fin(0)>>

\* ---- C16
\* each vector of list is the vector of a stored embedding of its own, all of
\* items of user_id
DrawnFromScope(list, user_id) ==
  \E f \in [1..Len(list) -> ScopeIndices(user_id)] :
    /\ \A i, j \in 1..Len(list) : f[i] = f[j] => i = j
    /\ \A i \in 1..Len(list) : list[i] = embeddings_db[f[i]].vector
\* C16: every vector passed to one compute_2d_positions call by an insert or a
\* recompute of a scope is the new vector or the embedding of an item of that
\* scope: vectors of two scopes never meet in one projection.
C16_ScopeIsolation ==
  [][\A r \in Reqs :
       /\ ProjectedStep(r) =>
            LET list == req'[r].valid_embeddings
            IN /\ Len(list) >= 1
               /\ list[Len(list)] = req[r].embedding
               /\ DrawnFromScope(SubSeq(list, 1, Len(list) - 1), req[r].user_id)
       /\ SnapshotStep(r) =>
            /\ Len(req'[r].positions) = Len(req'[r].item_ids)
            /\ \A i \in 1..Len(req'[r].item_ids) :
                 /\ req'[r].item_ids[i] \in DOMAIN items_db
                 /\ items_db[req'[r].item_ids[i]].user_id = req'[r].user_id]_vars
\* an upload has projected its vector with the one stored vector of its user
\* while the store holds a vector of the same dimension of another user
C16_Witness ==
  \E r \in Reqs :
    /\ req[r].pc = "create_item" /\ Len(req[r].valid_embeddings) = 2
    /\ Cardinality(ScopeIndices(req[r].user_id)) = 1
    /\ \E k \in 1..Len(embeddings_db) :
         /\ k \notin ScopeIndices(req[r].user_id)
         /\ embeddings_db[k].item_id \in DOMAIN items_db
         /\ embeddings_db[k].vector = req[r].embedding

\* ---- C17
Clamp(v, lo, hi) == IF v < lo THEN lo ELSE IF v > hi THEN hi ELSE v
\* C17: for every N >= 3 the neighbour count passed to the reducer is
\* clamp(15, 2, N-1), which is at least 2 and at most N-1, fewer than the
\* number of samples.
C17_NeighborClamp ==
  (ppc = "returned" /\ Len(embeddings) >= 3) =>
     /\ result.fit_calls = 1
     /\ result.n_neighbors = Clamp(15, 2, Len(embeddings) - 1)
     /\ 2 <= result.n_neighbors
     /\ result.n_neighbors <= Len(embeddings) - 1
     /\ result.n_neighbors < Len(embeddings)
\* seventeen vectors were projected and the reducer was given the configured
\* fifteen neighbours, fewer than N-1
C17_Witness ==
  /\ ppc = "returned" /\ Len(embeddings) = 17
  /\ result.fit_calls = 1
  /\ result.n_neighbors = 15

\* ---- C18
\* a step of upload r on its way through an insert
InsertStep(r) ==
  /\ IsUpload(r)
  /\ req[r].pc \in {"lock", "get_all_embeddings", "create_item", "store_embedding"}
  /\ req'[r] # req[r]
\* C18: an insert leaves the stored (x, y) of every item that existed before it
\* unchanged: the only position an upload writes is that of the item it
\* creates.
C18_InsertWritesOnlyNew ==
  [][\A r \in Reqs : InsertStep(r) =>
       /\ \A i \in DOMAIN items_db : i \in DOMAIN items_db' /\ items_db'[i] = items_db[i]
       /\ DOMAIN items_db' \subseteq DOMAIN items_db \cup {next_id}
       /\ (DOMAIN items_db' # DOMAIN items_db) => req[r].pc = "create_item"]_vars
\* the second item of a scope was projected together with the first and placed
\* at (500, 0), and the first is at (0, 0) where its own insert put it, not at
\* the (-500, 0) of that projection
C18_Witness ==
  \E a, b \in DOMAIN items_db :
    /\ a < b /\ items_db[a].user_id = items_db[b].user_id
    /\ HasEmbedding(a) /\ HasEmbedding(b)
    /\ b \in DOMAIN insert_log /\ insert_log[b] = 2
    /\ a \in DOMAIN insert_log /\ insert_log[a] = 1
    /\ items_db[a].x = Fin(0) /\ items_db[a].y = Fin(0)
    /\ items_db[b].x = Fin(500) /\ items_db[b].y = Fin(0)
    /\ \A r \in Reqs : req[r].pc = "idle"

RowsOf(edb, item_id) == {k \in 1..Len(edb) : edb[k].item_id = item_id}
\* C20: the embedding of an item is written once, by the upload that created
\* the item, and never changed: no insert of another item, recompute, position
\* update or metadata update modifies a stored vector.
C20_EmbeddingImmutable ==
  [][/\ \A k \in 1..Len(embeddings_db) : \A m \in 1..Len(embeddings_db') :
          embeddings_db'[m].item_id = embeddings_db[k].item_id =>
            embeddings_db'[m].vector = embeddings_db[k].vector
     /\ \A m \in 1..Len(embeddings_db') :
          /\ Cardinality(RowsOf(embeddings_db', embeddings_db'[m].item_id)) = 1
          /\ RowsOf(embeddings_db, embeddings_db'[m].item_id) = {} =>
               \E r \in Reqs :
                 /\ IsUpload(r) /\ req[r].pc = "store_embedding"
                 /\ req[r].item = embeddings_db'[m].item_id
                 /\ req[r].embedding = embeddings_db'[m].vector
                 /\ req[r].item = next_id - 1]_vars
\* an item was dragged, a second item was inserted into its scope after it and
\* a recompute of the scope is writing positions: the first item has its vector
C20_Witness ==
  /\ Len(embeddings_db) = 2
  /\ embeddings_db[1].item_id \in DOMAIN items_db
  /\ embeddings_db[2].item_id \in DOMAIN items_db
  /\ embeddings_db[1].vector = VecA /\ embeddings_db[2].vector = VecC
  /\ items_db[embeddings_db[2].item_id].x = Fin(250)
  /\ \E r \in Reqs :
       /\ req[r].kind = "recompute_positions" /\ req[r].pc = "update_item"
       /\ req[r].idx = 2
       /\ req[r].item_ids = <<embeddings_db[1].item_id, embeddings_db[2].item_id>>

\* ---- C21
\* the ids that were given to items that are no longer in the items store
DeletedIds == (1..(next_id - 1)) \ DOMAIN items_db
AllIdentical(list) == \A i, j \in 1..Len(list) : list[i] = list[j]
PairwiseDistinct(positions) ==
  \A i, j \in 1..Len(positions) : i # j => positions[i] # positions[j]
\* C22: for N >= 3 vectors that are all identical compute_2d_positions returns
\* positions that are pairwise distinct and whose coordinates are all finite.
C22_IdenticalSeparated ==
  (ppc = "returned" /\ Len(embeddings) >= 3 /\ AllIdentical(embeddings)) =>
    /\ ~result.raised
    /\ Len(result.positions) = Len(embeddings)
    /\ \A i \in 1..Len(result.positions) : PosFinite(result.positions[i])
    /\ PairwiseDistinct(result.positions)
\* three identical vectors were projected, the reducer returned a row with a
\* NaN, no axis counted as collapsed, and a returned coordinate is NaN
C22_Witness ==
  /\ ppc = "returned" /\ Len(embeddings) = 3 /\ AllIdentical(embeddings)
  /\ ~env.outcome.raises /\ result.branch = "normalised"
  /\ \E i \in 1..3 : ~PosFinite(result.positions[i])

\* ---- C23
\* the sum over the pairs i < j of (x_i - x_j)^2, which is N^2 times the variance
PairSquares(raw, axis) ==
  SumSeq([k \in 1..(Len(raw) * Len(raw)) |->
            LET i == ((k - 1) \div Len(raw)) + 1
                j == ((k - 1) % Len(raw)) + 1
                d == raw[i][axis][2] - raw[j][axis][2]
            IN IF i < j THEN d * d ELSE 0])
\* the standard deviation of the axis is a number below 1e-6
Collapsed(raw, axis) ==
  /\ \A i \in 1..Len(raw) : IsFinite(raw[i][axis])
  /\ PairSquares(raw, axis) < Len(raw) * Len(raw)
\* the axis was recentred and scaled to a standard deviation of 1000 (less the
\* effect of the 1e-8 and of rounding to whole units), rows in their order and
\* equal rows at equal positions; an axis with a NaN or an infinity comes out
\* non-finite
Rescaled(positions, raw, axis) ==
  LET n == Len(raw)
  IN IF \E i \in 1..n : ~IsFinite(raw[i][axis])
     THEN \A i \in 1..n : ~IsFinite(positions[i][axis])
     ELSE /\ \A i \in 1..n : IsFinite(positions[i][axis])
          /\ Abs(SumSeq([i \in 1..n |-> positions[i][axis][2]])) <= n
          /\ LET squares == SumSeq([i \in 1..n |->
                                      positions[i][axis][2] * positions[i][axis][2]])
             IN /\ 970000 * n <= squares
                /\ squares <= 1004000 * n
          /\ \A i, j \in 1..n :
               /\ raw[i][axis][2] < raw[j][axis][2] =>
                    positions[i][axis][2] < positions[j][axis][2]
               /\ raw[i][axis][2] = raw[j][axis][2] =>
                    positions[i][axis][2] = positions[j][axis][2]
C24_SmallScopeUntouched ==
  /\ [](\A u \in Users :
         LET vectors == VectorsOf(get_all_embeddings(items_db, embeddings_db, u))
         IN Len(vectors) < 2 =>
              \A e \in Envs(vectors) \cup {DefaultEnv} :
                RecomputeSnapshot(items_db, embeddings_db, u, e)
                  = NoWrites("Not enough items"))
  /\ [](\A r \in Reqs : req[r].kind = "recompute_positions" =>
          Len(req[r].item_ids) >= 2)
  /\ [][\A i \in DOMAIN items_db \cap DOMAIN items_db' :
          <<items_db'[i].x, items_db'[i].y>> # <<items_db[i].x, items_db[i].y>> =>
            \E r \in Reqs : /\ WriteStep(r)
                            /\ Len(req[r].item_ids) >= 2
                            /\ req[r].item_ids[req[r].idx] = i]_vars
\* the scope of a user holds one embedding, of an item that is not at the
\* origin where a projection of one vector would put it; no request is running
C24_Witness ==
  /\ \A r \in Reqs : req[r].pc = "idle"
  /\ \E u \in Users :
       LET snapshot == get_all_embeddings(items_db, embeddings_db, u)
       IN /\ Len(snapshot) = 1
          /\ items_db[snapshot[1].item_id].x = Fin(500)
          /\ RecomputeSnapshot(items_db, embeddings_db, u, DefaultEnv).response
               = "Not enough items"

C26_NoOrphanEmbedding ==
  \A k \in 1..Len(embeddings_db) : embeddings_db[k].item_id \in DOMAIN items_db
\* an item was deleted after its insert had created it and before the insert
\* stored its embedding: the insert is over, the lock is free, the item is gone
\* and its embedding is in the store
C26_Witness ==
  /\ ~upload_lock
  /\ \A r \in Reqs : req[r].pc = "idle"
  /\ \E k \in 1..Len(embeddings_db) :
       /\ embeddings_db[k].item_id \in DeletedIds
       /\ embeddings_db[k].vector \in UploadVectors

\* ---- C27
\* C27: after any upload_media requests of a user, concurrent ones included,
\* the file sizes of the user's items sum to no more than the user's storage
\* limit: a request whose file would take the sum over the limit is rejected
\* with 413 and stores nothing.
C27_QuotaRespected ==
  \A u \in Users :
    get_storage_info_internal(items_db, u).used_bytes
      <= get_storage_info_internal(items_db, u).limit_bytes
\* two uploads of one user, each of a file that passed the storage check, have
\* both returned: each item has its embedding, and the two files together are
\* larger than the limit
C27_Witness ==
  /\ \A r \in Reqs : req[r].pc = "idle"
  /\ \E u \in Users :
       /\ Cardinality(get_all_items(items_db, u)) = 2
       /\ \A i \in get_all_items(items_db, u) :
            /\ HasEmbedding(i)
            /\ StorageCheckPasses(<<>>, u, items_db[i].file_size)
       /\ get_storage_info_internal(items_db, u).used_bytes > storage_limit(u)

\* ---- C28
\* the items a request has created so far: those of the files that are done,
\* and the one whose embedding is about to be stored
CreatedBy(rq) ==
  {rq.uploaded_items[k] : k \in 1..Len(rq.uploaded_items)}
    \cup (IF rq.pc = "store_embedding" THEN {rq.item} ELSE {})
\* the step that ends request r with its error response
FailedStep(r) ==
  /\ req[r].pc # "idle" /\ req'[r].pc = "idle"
  /\ ~(req[r].pc = "store_embedding" /\ embeddings_db' # embeddings_db)
\* C28: when upload_from_twitter fails after one or more files of the batch
\* were created as items, its handler deletes the records of all of them: at
\* the end of a failed request none of the items it created is in the store.
C28_TwitterCleanup ==
  [][\A r \in Reqs :
       (req[r].kind = "upload_from_twitter" /\ FailedStep(r)) =>
         \A i \in CreatedBy(req[r]) : i \notin DOMAIN items_db']_vars

\* ---- C29
\* request r waits for upload_lock
Waiting(r) == IsUpload(r) /\ req[r].pc = "lock"
\* the step in which request r acquires upload_lock
AcquireStep(r) == Waiting(r) /\ req'[r].pc = "get_all_embeddings"
\* C29: no request acquires upload_lock while it is held, by itself or by any
\* other request (the handlers reached through upload_from_social and the loop
\* over the files of upload_from_twitter included); and under fair scheduling,
\* store calls and projections returning or raising, every request that waits
\* for upload_lock enters the critical section, and every request inside it
\* leaves it.
C29_DeadlockFree ==
  /\ [][\A r \in Reqs : AcquireStep(r) =>
          /\ ~upload_lock /\ upload_lock'
          /\ \A q \in Reqs : ~InCritical(q)]_vars
  /\ \A r \in Reqs : Waiting(r) ~> InCritical(r)
  /\ \A r \in Reqs : InCritical(r) ~> ~InCritical(r)
\* upload_from_twitter waits for the lock for its second file, having released
\* it after the first, while another request is inside the critical section
C29_Witness ==
  \E r, q \in Reqs :
    /\ Waiting(r) /\ req[r].kind = "upload_from_twitter"
    /\ req[r].uploaded_items # <<>>
    /\ InCritical(q) /\ req[q].pc = "store_embedding"
    /\ upload_lock

\* ---- C30
\* item i is in both states and its record differs, or it is gone
Touched(i) == i \notin DOMAIN items_db' \/ items_db'[i] # items_db[i]
\* C30: update_item and delete_item called for user U on an item of another
\* user end in an error and change neither store: no such call can take a step,
\* and every write of a recompute and every delete of a handler touches items
\* of the user of the request only.
C30_OwnerOnly ==
  /\ [](\A u \in Users, i \in DOMAIN items_db :
         items_db[i].user_id # u =>
           /\ ~ENABLED DeleteItem(u, i)
           /\ ~ENABLED UpdateItem(u, i)
           /\ \A p \in DragTargets : ~ENABLED UpdatePosition(u, i, p))
  /\ [][\A r \in Reqs :
          (req[r].pc \in {"update_item", "cleanup"} /\ req'[r] # req[r]) =>
            \A i \in DOMAIN items_db :
              Touched(i) => items_db[i].user_id = req[r].user_id]_vars
\* a recompute of one user is in its loop and has written the first point of
\* the pair to its first item, while the item of another user is where its
\* insert put it
C30_Witness ==
  \E r \in Reqs :
    /\ req[r].kind = "recompute_positions" /\ req[r].pc = "update_item"
    /\ req[r].idx = 2
    /\ req[r].item_ids[1] \in DOMAIN items_db
    /\ items_db[req[r].item_ids[1]].x = Fin(-500)
    /\ items_db[req[r].item_ids[1]].user_id = req[r].user_id
    /\ \E j \in DOMAIN items_db :
         /\ items_db[j].user_id # req[r].user_id
         /\ <<items_db[j].x, items_db[j].y>> = <<Fin(0), Fin(0)>>

====
